---- MODULE Spec2Model ----
(***************************************************************************)
(* Model of asystent_konkursow: the extractor (ai_processor.analyze_post), *)
(* the scraper (scraper.find_contests) and the Streamlit page (app.py).    *)
(*                                                                         *)
(* Text is a sequence of symbols.  A symbol is one character ("{", "}",    *)
(* "[", "]", ":", ",", the double quote, a blank) or a run of characters   *)
(* that holds no brace and no quote (a name, the literal null, a digit, a  *)
(* piece of prose).  str.index('{'), str.rindex('}') and slicing only cut  *)
(* at braces, and the JSON scanner only looks at the characters above, so  *)
(* a run is never split by the code.                                       *)
(***************************************************************************)
EXTENDS Integers, Sequences, FiniteSets, TLC

----------------------------------------------------------------------------
(* Bounds of the model *)

MaxBlank == 2
MaxJunk == 1
MaxShortText == 3
MaxScroll == 2
MaxElements == 2
MaxRows == 2

----------------------------------------------------------------------------
(* Python values *)

Q == "\""
None == <<"None">>
NoKey == "NoKey"

(* str.strip() == "" : every character is white space *)
IsBlank(s) == \A i \in 1..Len(s) : s[i] = " "

(* `not s` for a str *)
IsEmpty(s) == Len(s) = 0

----------------------------------------------------------------------------
(* json.loads, on the subset of JSON: objects, arrays, strings without     *)
(* escapes, numbers (digit runs), null; white space between tokens.        *)
(* Every scanner returns the position after what it read, 0 on an error.   *)

RECURSIVE SkipWs(_, _)
SkipWs(s, i) == IF i <= Len(s) /\ s[i] = " " THEN SkipWs(s, i + 1) ELSE i

RECURSIVE StringEnd(_, _)
(* i is the position after the opening quote *)
StringEnd(s, i) ==
    IF i > Len(s) THEN 0
    ELSE IF s[i] = Q THEN i + 1
    ELSE StringEnd(s, i + 1)

RECURSIVE NumberEnd(_, _)
NumberEnd(s, i) == IF i <= Len(s) /\ s[i] = "1" THEN NumberEnd(s, i + 1) ELSE i

RECURSIVE ValueEnd(_, _)
RECURSIVE MembersEnd(_, _)
RECURSIVE ItemsEnd(_, _)

(* i is at the first character of a value *)
ValueEnd(s, i) ==
    IF i > Len(s) THEN 0
    ELSE IF s[i] = Q THEN StringEnd(s, i + 1)
    ELSE IF s[i] = "1" THEN NumberEnd(s, i)
    ELSE IF s[i] = "null" THEN i + 1
    ELSE IF s[i] = "{" THEN
        LET Open(j) == IF j <= Len(s) /\ s[j] = "}" THEN j + 1 ELSE MembersEnd(s, j)
        IN  Open(SkipWs(s, i + 1))
    ELSE IF s[i] = "[" THEN
        LET Open(j) == IF j <= Len(s) /\ s[j] = "]" THEN j + 1 ELSE ItemsEnd(s, j)
        IN  Open(SkipWs(s, i + 1))
    ELSE 0

(* i is where a "key": value pair must begin; reads up to the closing brace *)
MembersEnd(s, i) ==
    LET AfterValue(d) ==
            IF d > Len(s) THEN 0
            ELSE IF s[d] = "}" THEN d + 1
            ELSE IF s[d] = "," THEN MembersEnd(s, SkipWs(s, d + 1))
            ELSE 0
        Value(v) == IF v = 0 THEN 0 ELSE AfterValue(SkipWs(s, v))
        Colon(c) ==
            IF c > Len(s) \/ s[c] # ":" THEN 0
            ELSE Value(ValueEnd(s, SkipWs(s, c + 1)))
        Key(k) == IF k = 0 THEN 0 ELSE Colon(SkipWs(s, k))
    IN  IF i > Len(s) \/ s[i] # Q THEN 0
        ELSE Key(StringEnd(s, i + 1))

(* i is where an array item must begin; reads up to the closing bracket *)
ItemsEnd(s, i) ==
    LET AfterValue(d) ==
            IF d > Len(s) THEN 0
            ELSE IF s[d] = "]" THEN d + 1
            ELSE IF s[d] = "," THEN ItemsEnd(s, SkipWs(s, d + 1))
            ELSE 0
        Item(v) == IF v = 0 THEN 0 ELSE AfterValue(SkipWs(s, v))
    IN  Item(ValueEnd(s, i))

RECURSIVE Squeeze(_, _, _)
(* the value's text with the white space between tokens removed *)
Squeeze(s, i, inString) ==
    IF i > Len(s) THEN <<>>
    ELSE IF s[i] = Q THEN <<s[i]>> \o Squeeze(s, i + 1, ~inString)
    ELSE IF s[i] = " " /\ ~inString THEN Squeeze(s, i + 1, inString)
    ELSE <<s[i]>> \o Squeeze(s, i + 1, inString)

(* the Python value of the JSON value s[i..j-1]: null is None *)
PyValue(s, i, j) ==
    IF j = i + 1 /\ s[i] = "null" THEN None
    ELSE Squeeze(SubSeq(s, i, j - 1), 1, FALSE)

RECURSIVE Members(_, _)
(* the pairs <<key, value>> of a well-formed object, i at its first pair *)
Members(s, i) ==
    LET Rest(d) == IF s[d] = "," THEN Members(s, SkipWs(s, d + 1)) ELSE <<>>
        Value(k, b, v) == <<<<SubSeq(s, i + 1, k - 2), PyValue(s, b, v)>>>> \o Rest(SkipWs(s, v))
        Begin(k, b) == Value(k, b, ValueEnd(s, b))
        Key(k) == Begin(k, SkipWs(s, SkipWs(s, k) + 1))
    IN  Key(StringEnd(s, i + 1))

(* json.loads(s): [ok |-> FALSE] stands for json.JSONDecodeError, else the *)
(* type of the decoded value and, for a dict, its pairs in text order      *)
json_loads(s) ==
    LET Pairs(b, m) == IF s[b] = "{" /\ s[m] # "}" THEN Members(s, m) ELSE <<>>
        Decode(b, e) ==
            IF e = 0 \/ SkipWs(s, e) # Len(s) + 1
            THEN [ok |-> FALSE, type |-> "JSONDecodeError", pairs |-> <<>>]
            ELSE
                [ok |-> TRUE,
                 type |-> IF s[b] = "{" THEN "dict"
                          ELSE IF s[b] = "[" THEN "list"
                          ELSE IF s[b] = Q THEN "str"
                          ELSE IF s[b] = "1" THEN "int"
                          ELSE "NoneType",
                 pairs |-> Pairs(b, SkipWs(s, b + 1))]
        From(b) == Decode(b, ValueEnd(s, b))
    IN  From(SkipWs(s, 1))

(* key in d *)
HasKey(pairs, key) == \E i \in 1..Len(pairs) : pairs[i][1] = key

(* d.get(key): a repeated key keeps its last value, a missing key is None *)
DictGet(pairs, key) ==
    IF HasKey(pairs, key)
    THEN pairs[CHOOSE i \in 1..Len(pairs) :
                 /\ pairs[i][1] = key
                 /\ \A j \in (i + 1)..Len(pairs) : pairs[j][1] # key][2]
    ELSE None

----------------------------------------------------------------------------
(* Exceptions: [cls, msg]; every class modelled derives from Exception *)

Parent(cls) ==
    IF cls = "JSONDecodeError" THEN "ValueError"
    ELSE IF cls = "Exception" THEN "BaseException"
    ELSE "Exception"

RECURSIVE IsInstance(_, _)
IsInstance(cls, base) ==
    IF cls = base THEN TRUE
    ELSE IF cls = "BaseException" THEN FALSE
    ELSE IsInstance(Parent(cls), base)

(* an except clause naming the classes `bases` handles an exception of cls *)
Catches(bases, cls) == \E b \in bases : IsInstance(cls, b)

NoExc == [cls |-> "", msg |-> ""]
Exc(cls, msg) == [cls |-> cls, msg |-> msg]

LogRecord(level, msg) == [level |-> level, msg |-> msg]

----------------------------------------------------------------------------
(* ai_processor.analyze_post *)

(* genai's module state: the key genai.configure last took *)
VARIABLE configured_key

expected_keys == <<"zadanie_konkursowe", "miejsce_zgloszenia", "termin_zakonczenia">>

ExpectedKeySet == {expected_keys[i] : i \in 1..Len(expected_keys)}

(* the four-key dictionaries of the failure returns; the markers are       *)
(* written without their diacritics                                        *)
ErrorRecord(marker, error) ==
    [k \in ExpectedKeySet \cup {"error"} |-> IF k = "error" THEN error ELSE marker]

(* the outcome of a call: outcome is "return" or "raise" *)
Returns(result, calls, log) ==
    [outcome |-> "return", result |-> result, exc |-> NoExc, calls |-> calls, log |-> log]

Raises(exc, calls, log) ==
    [outcome |-> "raise", result |-> <<>>, exc |-> exc, calls |-> calls, log |-> log]

(* a bug: a call without a key goes on with the key genai was configured  *)
(* with earlier                                                            *)
MissingKey_UnlessConfigured(api_key) == api_key = "" /\ configured_key = NoKey

(* a bug: `if api_key is None`, which no str satisfies *)
MissingKey_NoneOnly(api_key) == FALSE

(* line 23: not api_key *)
MissingKey(api_key) == api_key = ""

(* a bug: `if not post_content`, without the strip() test *)
EmptyContent_NoStrip(post_content) == IsEmpty(post_content)

(* line 43: not post_content or post_content.strip() == "" *)
EmptyContent(post_content) == IsEmpty(post_content) \/ IsBlank(post_content)

(* str.index('{'): 0 stands for ValueError *)
IndexOf(text, ch) ==
    IF \E i \in 1..Len(text) : text[i] = ch
    THEN CHOOSE i \in 1..Len(text) : text[i] = ch /\ \A j \in 1..(i - 1) : text[j] # ch
    ELSE 0

(* str.rindex('}'): 0 stands for ValueError *)
RIndexOf(text, ch) ==
    IF \E i \in 1..Len(text) : text[i] = ch
    THEN CHOOSE i \in 1..Len(text) : text[i] = ch /\ \A j \in (i + 1)..Len(text) : text[j] # ch
    ELSE 0

(* a bug: rindex('}') without the + 1, the slice stops before the brace *)
JsonSlice_NoPlusOne(text) ==
    LET Slice(json_start, json_end) ==
            IF json_start = 0 \/ json_end = 0
            THEN [found |-> FALSE, json_str |-> <<>>]
            ELSE [found |-> TRUE, json_str |-> SubSeq(text, json_start, json_end - 1)]
    IN  Slice(IndexOf(text, "{"), RIndexOf(text, "}"))

(* a bug: index('}') for rindex('}'), the first closing brace *)
JsonSlice_FirstClose(text) ==
    LET Slice(json_start, json_end) ==
            IF json_start = 0 \/ json_end = 0
            THEN [found |-> FALSE, json_str |-> <<>>]
            ELSE [found |-> TRUE, json_str |-> SubSeq(text, json_start, json_end)]
    IN  Slice(IndexOf(text, "{"), IndexOf(text, "}"))

(* lines 71-73: response.text[json_start:json_end]; found is FALSE when    *)
(* index or rindex raised ValueError                                       *)
JsonSlice(text) ==
    LET Slice(json_start, json_end) ==
            IF json_start = 0 \/ json_end = 0
            THEN [found |-> FALSE, json_str |-> <<>>]
            ELSE [found |-> TRUE, json_str |-> SubSeq(text, json_start, json_end)]
    IN  Slice(IndexOf(text, "{"), RIndexOf(text, "}"))

(* lines 71-74, the inner try block: the value decoded from the slice, or *)
(* the exception raised                                                    *)
InnerTry(text) ==
    LET Loaded(r) ==
            IF r.ok THEN [exc |-> NoExc, parsed |-> r]
            ELSE [exc |-> Exc("JSONDecodeError", "decode error"), parsed |-> r]
        Sliced(sl) ==
            IF ~sl.found
            THEN [exc |-> Exc("ValueError", "substring not found"), parsed |-> json_loads(<<>>)]
            ELSE Loaded(json_loads(sl.json_str))
    IN  Sliced(JsonSlice(text))

(* a bug: except AttributeError alone *)
InnerHandled_AttrOnly == {"AttributeError"}

(* the classes the inner except clause names, line 75 *)
InnerHandled == {"ValueError", "AttributeError"}

(* lines 70-79 for a response whose text is the str `text`: the decoded    *)
(* value, or the exception that leaves the inner try statement              *)
ParseResponse(text) ==
    LET Fallback(lg, whole) ==
            IF whole.ok THEN [exc |-> NoExc, parsed |-> whole, log |-> lg]
            ELSE [exc |-> Exc("JSONDecodeError", "decode error"), parsed |-> whole, log |-> lg]
        After(t) ==
            IF t.exc = NoExc
            THEN [exc |-> NoExc, parsed |-> t.parsed, log |-> <<>>]
            ELSE IF Catches(InnerHandled, t.exc.cls)
            THEN Fallback(<<LogRecord("ERROR", <<"Could not find JSON in response: ">> \o text
                                                \o <<". Error: ", t.exc.msg>>)>>,
                          json_loads(text))
            ELSE [exc |-> t.exc, parsed |-> t.parsed, log |-> <<>>]
    IN  After(InnerTry(text))

(* a bug: parsed_response[key] for parsed_response.get(key) *)
Normalize_Subscript(parsed) ==
    IF parsed.type # "dict"
    THEN [exc |-> Exc("TypeError", "indices must be integers"), result |-> <<>>, log |-> <<>>]
    ELSE IF \E k \in ExpectedKeySet : ~HasKey(parsed.pairs, <<k>>)
    THEN [exc |-> Exc("KeyError", "key"), result |-> <<>>, log |-> <<>>]
    ELSE [exc |-> NoExc,
          result |-> [k \in ExpectedKeySet |-> DictGet(parsed.pairs, <<k>>)],
          log |-> <<>>]

(* a bug: a key whose value is null counts as missing *)
Normalize_NullIsMissing(parsed) ==
    IF parsed.type # "dict"
    THEN [exc |-> Exc("AttributeError", "object has no attribute 'get'"), result |-> <<>>, log |-> <<>>]
    ELSE
        [exc |-> NoExc,
         result |-> [k \in ExpectedKeySet |-> DictGet(parsed.pairs, <<k>>)],
         log |-> IF \A k \in ExpectedKeySet : DictGet(parsed.pairs, <<k>>) # None THEN <<>>
                 ELSE <<LogRecord("WARNING", <<"AI response missing some expected keys">>)>>]

(* lines 82-97: the three expected keys read with dict.get *)
Normalize(parsed) ==
    IF parsed.type # "dict"
    THEN [exc |-> Exc("AttributeError", "object has no attribute 'get'"), result |-> <<>>, log |-> <<>>]
    ELSE
        [exc |-> NoExc,
         result |-> [k \in ExpectedKeySet |-> DictGet(parsed.pairs, <<k>>)],
         log |-> IF \A k \in ExpectedKeySet : HasKey(parsed.pairs, <<k>>) THEN <<>>
                 ELSE <<LogRecord("WARNING", <<"AI response missing some expected keys">>)>>]

(* lines 65-97, the body of the outer try statement.  gen is the outcome   *)
(* of generate_content: it raises, or returns a response whose text is a   *)
(* str, is None, or raises ValueError when read                            *)
TryBody(post_content, gen) ==
    LET calls == <<<<"GenerativeModel", "gemini-pro">>, <<"generate_content">> \o post_content>> IN
    IF gen.kind = "raise"
    THEN [exc |-> Exc(gen.cls, gen.msg), result |-> <<>>, calls |-> calls, log |-> <<>>, text |-> <<"N/A">>]
    ELSE IF gen.kind = "text_raises"
    THEN [exc |-> Exc("ValueError", gen.msg), result |-> <<>>, calls |-> calls, log |-> <<>>, text |-> <<"N/A">>]
    ELSE IF gen.kind = "text_none"
    THEN [exc |-> Exc("TypeError", "the JSON object must be str, bytes or bytearray, not NoneType"),
          result |-> <<>>, calls |-> calls,
          log |-> <<LogRecord("ERROR", <<"Could not find JSON in response: ", "None", ". Error: ",
                                         "'NoneType' object has no attribute 'index'">>)>>,
          text |-> <<"None">>]
    ELSE
        LET Normalized(p, n) ==
                [exc |-> n.exc, result |-> n.result, calls |-> calls, log |-> p.log \o n.log,
                 text |-> gen.text]
            Parsed(p) ==
                IF p.exc # NoExc
                THEN [exc |-> p.exc, result |-> <<>>, calls |-> calls, log |-> p.log, text |-> gen.text]
                ELSE Normalized(p, Normalize(p.parsed))
        IN  Parsed(ParseResponse(gen.text))

(* lines 99-106: except json.JSONDecodeError as e; text is response.text,  *)
(* or 'N/A' when no response was bound                                     *)
JsonErrorReturn(exc, text) ==
    [result |-> ErrorRecord(<<"Blad parsowania JSON">>, <<"Invalid JSON response">>),
     log |-> <<LogRecord("ERROR",
                 <<"Error decoding JSON from AI response: ", exc.msg, ". Response text: ">> \o text)>>]

(* a bug: the message of the exception left out of the record *)
ApiErrorReturn_NoMessage(exc) ==
    [result |-> ErrorRecord(<<"Blad API">>, <<"API Error">>),
     log |-> <<LogRecord("ERROR", <<"Error calling Gemini API: ", exc.msg>>)>>]

(* lines 107-115: except Exception as e *)
ApiErrorReturn(exc) ==
    [result |-> ErrorRecord(<<"Blad API">>, <<"API Error: ", exc.msg>>),
     log |-> <<LogRecord("ERROR", <<"Error calling Gemini API: ", exc.msg>>)>>]

(* a bug: no except Exception clause *)
CallModel_JsonOnly(post_content, gen) ==
    LET Handle(b) ==
            IF b.exc = NoExc THEN Returns(b.result, b.calls, b.log)
            ELSE IF Catches({"JSONDecodeError"}, b.exc.cls)
            THEN Returns(JsonErrorReturn(b.exc, b.text).result, b.calls,
                         b.log \o JsonErrorReturn(b.exc, b.text).log)
            ELSE Raises(b.exc, b.calls, b.log)
    IN  Handle(TryBody(post_content, gen))

(* a bug: a failed attempt is followed by a second generate_content *)
CallModel_Retry(post_content, gen) ==
    LET Handle(b) ==
            IF b.exc = NoExc THEN Returns(b.result, b.calls, b.log)
            ELSE IF Catches({"JSONDecodeError"}, b.exc.cls)
            THEN Returns(JsonErrorReturn(b.exc, b.text).result,
                         b.calls \o <<<<"generate_content">> \o post_content>>,
                         b.log \o JsonErrorReturn(b.exc, b.text).log)
            ELSE IF Catches({"Exception"}, b.exc.cls)
            THEN Returns(ApiErrorReturn(b.exc).result,
                         b.calls \o <<<<"generate_content">> \o post_content>>,
                         b.log \o ApiErrorReturn(b.exc).log)
            ELSE Raises(b.exc, b.calls, b.log)
    IN  Handle(TryBody(post_content, gen))

(* lines 64-115: the outer try statement with its two except clauses *)
CallModel(post_content, gen) ==
    LET Handle(b) ==
            IF b.exc = NoExc THEN Returns(b.result, b.calls, b.log)
            ELSE IF Catches({"JSONDecodeError"}, b.exc.cls)
            THEN Returns(JsonErrorReturn(b.exc, b.text).result, b.calls,
                         b.log \o JsonErrorReturn(b.exc, b.text).log)
            ELSE IF Catches({"Exception"}, b.exc.cls)
            THEN Returns(ApiErrorReturn(b.exc).result, b.calls, b.log \o ApiErrorReturn(b.exc).log)
            ELSE Raises(b.exc, b.calls, b.log)
    IN  Handle(TryBody(post_content, gen))

(* a bug: the except clause logs and does not return *)
Configure_Swallows(api_key, cfg) ==
    [done |-> FALSE,
     ret |-> Returns(<<>>, <<<<"configure", api_key>>>>,
                     IF cfg.kind = "raise"
                     THEN <<LogRecord("ERROR", <<"Error configuring Gemini API: ", cfg.msg>>)>>
                     ELSE <<>>)]

(* lines 32-41: genai.configure(api_key=api_key) in its try statement; cfg *)
(* is the outcome of genai.configure                                       *)
Configure(api_key, cfg) ==
    LET calls == <<<<"configure", api_key>>>> IN
    IF cfg.kind # "raise" THEN [done |-> FALSE, ret |-> Returns(<<>>, calls, <<>>)]
    ELSE IF Catches({"Exception"}, cfg.cls)
    THEN [done |-> TRUE,
          ret |-> Returns(ErrorRecord(<<"Blad konfiguracji API">>, <<"Error configuring Gemini API: ", cfg.msg>>),
                          calls,
                          <<LogRecord("ERROR", <<"Error configuring Gemini API: ", cfg.msg>>)>>)]
    ELSE [done |-> TRUE, ret |-> Raises(Exc(cfg.cls, cfg.msg), calls, <<>>)]

(* lines 10-115 *)
analyze_post(post_content, api_key, cfg, gen) ==
    IF MissingKey(api_key)
    THEN Returns(ErrorRecord(<<"Blad konfiguracji">>, <<"API key is missing">>), <<>>,
                 <<LogRecord("ERROR", <<"API key is missing.">>)>>)
    ELSE
        LET WithModel(c, m) == [m EXCEPT !.calls = c.ret.calls \o m.calls]
            Configured(c) ==
                IF c.done THEN c.ret
                ELSE IF EmptyContent(post_content)
                THEN Returns(ErrorRecord(None, <<"Empty post content">>), c.ret.calls,
                             <<LogRecord("WARNING", <<"Post content is empty. Skipping analysis.">>)>>)
                ELSE WithModel(c, CallModel(post_content, gen))
        IN  Configured(Configure(api_key, cfg))

----------------------------------------------------------------------------
(* The inputs of analyze_post and the outcomes of the genai calls *)

RECURSIVE SeqsUpTo(_, _)
(* the sequences over S of length at most n *)
SeqsUpTo(S, n) ==
    IF n = 0 THEN {<<>>}
    ELSE LET shorter == SeqsUpTo(S, n - 1)
         IN  shorter \cup {Append(q, x) : q \in {r \in shorter : Len(r) = n - 1}, x \in S}

ApiKeys == {"", "k1", "k2"}

(* the blank contents up to MaxBlank characters, and contents with text *)
Contents ==
    SeqsUpTo({" "}, MaxBlank) \cup {<<"a">>, <<" ", "a">>, <<"a", " ", "a">>}

Msgs == {"m1", "m2"}

(* a call that was not made has no outcome *)
NotCalled == [kind |-> "not_called", cls |-> "", msg |-> "", text |-> <<>>]

Ok == [kind |-> "ok", cls |-> "", msg |-> "", text |-> <<>>]

Raise(cls, msg) == [kind |-> "raise", cls |-> cls, msg |-> msg, text |-> <<>>]

Response(text) == [kind |-> "return", cls |-> "", msg |-> "", text |-> text]

ConfigureOutcomes ==
    {Ok} \cup {Raise(c, m) : c \in {"Exception", "ValueError"}, m \in Msgs}

(* "key": value *)
Pair(key, value) == <<Q, key, Q, ":">> \o value

Str(run) == <<Q, run, Q>>

(* the objects with each expected key absent, null or a string, and the    *)
(* key "error" absent or present                                           *)
RECURSIVE Join(_)
Join(parts) ==
    IF Len(parts) = 0 THEN <<>>
    ELSE IF Len(parts) = 1 THEN parts[1]
    ELSE parts[1] \o <<",">> \o Join(Tail(parts))

Choices == {"absent", "null", "str"}

Member(key, choice) ==
    IF choice = "absent" THEN <<>>
    ELSE IF choice = "null" THEN <<Pair(key, <<"null">>)>>
    ELSE <<Pair(key, Str("x"))>>

KeyedObjects ==
    {<<"{">> \o Join(Member(expected_keys[1], a) \o Member(expected_keys[2], b)
                     \o Member(expected_keys[3], c) \o Member("error", e)) \o <<"}">> :
        a \in Choices, b \in Choices, c \in Choices, e \in {"absent", "str"}}

(* objects and near-objects that the first-brace/last-brace slice, the     *)
(* decoder and dict.get treat differently                                  *)
Cores ==
    { <<"{">> \o Pair(expected_keys[1], Str("x")) \o <<",">> \o Pair(expected_keys[2], <<"null">>)
          \o <<",">> \o Pair(expected_keys[3], <<"1">>) \o <<"}">>,
      <<"{">> \o Pair(expected_keys[1], <<"1">>) \o <<",">> \o Pair("error", Str("x")) \o <<"}">>,
      <<"{", "}">>,
      <<"{">> \o Pair(expected_keys[1], <<"{">> \o Pair(expected_keys[2], <<"1">>) \o <<"}">>) \o <<"}">>,
      <<"{">> \o Pair(expected_keys[1], <<Q, "}", "{", Q>>) \o <<"}">>,
      <<"{">> \o Pair(expected_keys[1], <<"1">>) \o <<",", "}">>,
      <<"{">> \o Pair(expected_keys[1], <<"1">>) \o <<"}", "x", "{">> \o Pair(expected_keys[2], <<"1">>) \o <<"}">> }

Specials ==
    { <<"{">> \o Pair(expected_keys[1], <<"1">>) \o <<",">> \o Pair(expected_keys[1], <<"null">>) \o <<"}">>,
      <<"{", " ", Q, expected_keys[1], Q, " ", ":", " ", "[", "1", ",", " ", "1", "]", " ", "}">>,
      <<"{", Q, expected_keys[1], " ", Q, ":", "1", "}">>,
      <<"{", Q, expected_keys[1], Q, "1", "}">>,
      <<"{", Q, expected_keys[1], Q, ":", "x", "}">>,
      <<Q, "}", "{", Q>>,
      <<"[", Q, "}", Q, ",", Q, "{", Q, "]">>,
      <<"x", "x", " ", "x">>,
      <<"null">>,
      <<Q, "x", Q>> }

Junk == SeqsUpTo({"x", " ", "[", "]"}, MaxJunk)

Wrapped == {p \o c \o q : p \in Junk, c \in Cores, q \in Junk}

ShortTexts == SeqsUpTo({"{", "}", Q, "1", " ", "["}, MaxShortText)

Texts == ShortTexts \cup KeyedObjects \cup Wrapped \cup Specials

GenerateOutcomes ==
    {Raise(c, m) : c \in {"Exception", "ValueError", "JSONDecodeError"}, m \in Msgs}
    \cup {[kind |-> "text_raises", cls |-> "", msg |-> "m1", text |-> <<>>],
          [kind |-> "text_none", cls |-> "", msg |-> "", text |-> <<>>]}
    \cup {Response(t) : t \in Texts}

(* analyze_post calls the function `name` of genai on these arguments *)
Consults(name, post_content, api_key, cfg) ==
    \E r \in {analyze_post(post_content, api_key, cfg, NotCalled)} :
        \E i \in 1..Len(r.calls) : r.calls[i][1] = name

----------------------------------------------------------------------------
(* scraper.find_contests: what a matched element does when it is read *)

SearchPhrases == {"konkurs", "wygraj nagrody"}

Unread == [kind |-> "unread", cls |-> "", msg |-> "", text |-> <<>>]

Value(text) == [kind |-> "value", cls |-> "", msg |-> "", text |-> text]

(* post_element.text: a str, possibly empty, or the read raises *)
TextOutcomes ==
    {Value(<<"p1">>), Value(<<"p2">>), Value(<<>>)} \cup {Raise("Exception", m) : m \in Msgs}

(* the first 'a' of the element: find_element_by_css_selector raises or    *)
(* returns None, or get_attribute('href') raises, returns None, '' or a    *)
(* link                                                                    *)
LinkOutcomes ==
    {Value(<<"l1">>), Value(<<"l2">>), Value(<<>>), Value(None),
     [kind |-> "no_element", cls |-> "", msg |-> "", text |-> <<>>],
     [kind |-> "find_raises", cls |-> "Exception", msg |-> "m1", text |-> <<>>],
     [kind |-> "href_raises", cls |-> "Exception", msg |-> "m2", text |-> <<>>]}

(* a bug: `if post_link is not None` *)
Truthy_NotNone(v) == v # None

(* `if post_link`: neither None nor '' *)
Truthy(v) == v # None /\ v # <<>>

(* a bug: no `continue` after the warning about an empty text *)
ElementBody_NoContinue(n, text, link) ==
    IF text.kind = "raise"
    THEN [exc |-> Exc(text.cls, text.msg), append |-> <<>>, calls |-> <<<<"text", ToString(n)>>>>, log |-> <<>>]
    ELSE
        LET warned == IF IsEmpty(text.text)
                      THEN <<LogRecord("WARNING", <<"Post element has no text content. Skipping.", ToString(n)>>)>>
                      ELSE <<>>
        IN  IF link.kind = "find_raises"
            THEN [exc |-> Exc(link.cls, link.msg), append |-> <<>>,
                  calls |-> <<<<"text", ToString(n)>>, <<"find_element_by_css_selector", ToString(n)>>>>,
                  log |-> warned]
            ELSE IF link.kind = "href_raises"
            THEN [exc |-> Exc(link.cls, link.msg), append |-> <<>>,
                  calls |-> <<<<"text", ToString(n)>>, <<"find_element_by_css_selector", ToString(n)>>,
                              <<"get_attribute", ToString(n)>>>>,
                  log |-> warned]
            ELSE IF link.kind = "value" /\ link.text # None /\ link.text # <<>>
            THEN [exc |-> NoExc, append |-> <<[content |-> text.text, link |-> link.text]>>,
                  calls |-> <<<<"text", ToString(n)>>, <<"find_element_by_css_selector", ToString(n)>>,
                              <<"get_attribute", ToString(n)>>>>,
                  log |-> warned \o <<LogRecord("DEBUG", <<"Successfully extracted content and link for post",
                                                           ToString(n)>>)>>]
            ELSE [exc |-> NoExc, append |-> <<>>,
                  calls |-> <<<<"text", ToString(n)>>, <<"find_element_by_css_selector", ToString(n)>>>>
                            \o IF link.kind = "value" THEN <<<<"get_attribute", ToString(n)>>>> ELSE <<>>,
                  log |-> warned \o <<LogRecord("WARNING", <<"Could not extract link for post", ToString(n)>>
                                                            \o text.text)>>]

(* lines 50-72, the body of the try statement of one loop iteration, for   *)
(* the element number n: the record appended, the calls made on the        *)
(* element, the records logged and the exception raised                    *)
ElementBody(n, text, link) ==
    IF text.kind = "raise"
    THEN [exc |-> Exc(text.cls, text.msg), append |-> <<>>, calls |-> <<<<"text", ToString(n)>>>>, log |-> <<>>]
    ELSE IF IsEmpty(text.text)
    THEN [exc |-> NoExc, append |-> <<>>, calls |-> <<<<"text", ToString(n)>>>>,
          log |-> <<LogRecord("WARNING", <<"Post element has no text content. Skipping.", ToString(n)>>)>>]
    ELSE IF link.kind = "find_raises"
    THEN [exc |-> Exc(link.cls, link.msg), append |-> <<>>,
          calls |-> <<<<"text", ToString(n)>>, <<"find_element_by_css_selector", ToString(n)>>>>, log |-> <<>>]
    ELSE IF link.kind = "href_raises"
    THEN [exc |-> Exc(link.cls, link.msg), append |-> <<>>,
          calls |-> <<<<"text", ToString(n)>>, <<"find_element_by_css_selector", ToString(n)>>, <<"get_attribute", ToString(n)>>>>,
          log |-> <<>>]
    ELSE
        LET found == link.kind = "value"
            post_link == IF found THEN link.text ELSE None
            made == <<<<"text", ToString(n)>>, <<"find_element_by_css_selector", ToString(n)>>>>
                    \o IF found THEN <<<<"get_attribute", ToString(n)>>>> ELSE <<>>
        IN  IF Truthy(post_link)
            THEN [exc |-> NoExc, append |-> <<[content |-> text.text, link |-> post_link]>>,
                  calls |-> made,
                  log |-> <<LogRecord("DEBUG", <<"Successfully extracted content and link for post", ToString(n)>>)>>]
            ELSE [exc |-> NoExc, append |-> <<>>, calls |-> made,
                  log |-> <<LogRecord("WARNING", <<"Could not extract link for post", ToString(n)>> \o text.text)>>]

(* a bug: the iteration has no except clause *)
ProcessElement_NoHandler(n, text, link) ==
    LET Handle(b) ==
            IF b.exc = NoExc
            THEN [raised |-> NoExc, append |-> b.append, calls |-> b.calls, log |-> b.log]
            ELSE [raised |-> b.exc, append |-> <<>>, calls |-> b.calls, log |-> b.log]
    IN  Handle(ElementBody(n, text, link))

(* lines 46-76, one iteration of the loop: the try statement with its      *)
(* except clause; raised is the exception that leaves the iteration        *)
ProcessElement(n, text, link) ==
    LET Handle(b) ==
            IF b.exc = NoExc
            THEN [raised |-> NoExc, append |-> b.append, calls |-> b.calls, log |-> b.log]
            ELSE IF Catches({"Exception"}, b.exc.cls)
            THEN [raised |-> NoExc, append |-> <<>>, calls |-> b.calls,
                  log |-> b.log \o <<LogRecord("WARNING",
                             <<"Error processing post element", ToString(n), b.exc.msg>>
                             \o (IF text.kind = "value" THEN text.text ELSE <<>>)
                             \o <<"Skipping this post.">>)>>]
            ELSE [raised |-> b.exc, append |-> <<>>, calls |-> b.calls, log |-> b.log]
    IN  Handle(ElementBody(n, text, link))

(* a bug: the except clause logs and raises again *)
SessionHandler_Reraise(exc) ==
    [raised |-> exc,
     log |-> <<LogRecord("ERROR",
                <<"An error occurred during the scraping process in find_contests: ", exc.msg>>)>>]

(* lines 78-79: the except clause of the session *)
SessionHandler(exc) ==
    IF Catches({"Exception"}, exc.cls)
    THEN [raised |-> NoExc,
          log |-> <<LogRecord("ERROR",
                     <<"An error occurred during the scraping process in find_contests: ", exc.msg>>)>>]
    ELSE [raised |-> exc, log |-> <<>>]

(* a bug: the phrase is percent-encoded before it is put in the URL *)
SearchUrl_Quoted(phrase) ==
    <<"https://www.facebook.com/search/posts/?q=",
      IF phrase = "wygraj nagrody" THEN "wygraj%20nagrody" ELSE phrase>>

(* line 32 *)
SearchUrl(phrase) == <<"https://www.facebook.com/search/posts/?q=", phrase>>

SessionOutcomes == {Ok} \cup {Raise("Exception", m) : m \in Msgs}

----------------------------------------------------------------------------
(* app.py: the Streamlit script. Every event in the page runs the script   *)
(* from its first line, in a fresh namespace, over the st.session_state of *)
(* the session, written ss below                                           *)

(* lines 104-110; the column names are written without diacritics *)
ColumnNames ==
    <<"Link", "Tresc Posta", "Zadanie Konkursowe", "Miejsce Zgloszenia", "Termin Zakonczenia">>

Columns == {ColumnNames[i] : i \in 1..Len(ColumnNames)}

(* pd.DataFrame: its columns and its rows, each row a value per column *)
DataFrame(rows) == [columns |-> ColumnNames, rows |-> rows]

(* DataFrame.empty *)
DataFrameEmpty(df) == Len(df.rows) = 0 \/ Len(df.columns) = 0

Rows == {[c \in Columns |-> IF c = "Link" THEN "l1" ELSE v] : v \in {"x", "y"}}

Tables == {DataFrame(rows) : rows \in SeqsUpTo(Rows, MaxRows)}

(* line 12 *)
DefaultScrollCount == 5

(* lines 56-57: the slider *)
SliderMin == 1

SliderMax == 20

SearchInputs == {"", "konkurs", "wygraj"}

(* no file at the path *)
NoFile == <<"NoFile">>

(* lines 7-18, 103-112: the session state a first run of the script leaves *)
NewSession(df) ==
    [gemini_api_key |-> "", search_phrase |-> "", scroll_count |-> DefaultScrollCount,
     start_button_clicked |-> FALSE, save_button_clicked |-> FALSE, results_df |-> df]

(* what a part of the script leaves: the session state, what it put on the *)
(* page, the calls it made, whether the name `time` is bound, and the      *)
(* directory and file of the export                                        *)
Ran(ss, shown, invoked, time_bound, data_dir, xlsx) ==
    [ss |-> ss, shown |-> shown, invoked |-> invoked, time_bound |-> time_bound,
     data_dir |-> data_dir, xlsx |-> xlsx]

(* lines 64-66: st.button("Start!") is true in the run its click causes *)
StartButton(ss, pressed) ==
    IF pressed
    THEN [ss EXCEPT !.start_button_clicked = TRUE, !.save_button_clicked = FALSE]
    ELSE ss

(* a change: a valid Start puts a row in the table *)
StartHandling_FillsTable(ss) ==
    IF ~ss.start_button_clicked THEN [ss |-> ss, shown |-> <<>>, invoked |-> <<>>, time_bound |-> FALSE]
    ELSE IF ss.gemini_api_key = ""
    THEN [ss |-> [ss EXCEPT !.start_button_clicked = FALSE],
          shown |-> <<<<"error", "Prosze wprowadzic klucz API Gemini w panelu bocznym.">>>>,
          invoked |-> <<>>, time_bound |-> FALSE]
    ELSE IF ss.search_phrase = ""
    THEN [ss |-> [ss EXCEPT !.start_button_clicked = FALSE],
          shown |-> <<<<"warning", "Prosze wpisac fraze do wyszukania.">>>>,
          invoked |-> <<>>, time_bound |-> FALSE]
    ELSE [ss |-> [ss EXCEPT !.start_button_clicked = FALSE,
                            !.results_df = DataFrame(<<[c \in Columns |-> "x"]>>)],
          shown |-> <<<<"spinner", "Rozpoczynam wyszukiwanie dla frazy", ss.search_phrase>>,
                      <<"success", "Placeholder: Wyszukiwanie zakonczone (symulacja).", ss.search_phrase>>,
                      <<"write", "Dane wejsciowe:">>,
                      <<"json", ToString(Len(ss.gemini_api_key)), ss.search_phrase,
                        ToString(ss.scroll_count)>>>>,
          invoked |-> <<<<"sleep", "3">>>>, time_bound |-> TRUE]

(* a bug: the phrase is checked before the key *)
StartHandling_PhraseFirst(ss) ==
    IF ~ss.start_button_clicked THEN [ss |-> ss, shown |-> <<>>, invoked |-> <<>>, time_bound |-> FALSE]
    ELSE IF ss.search_phrase = ""
    THEN [ss |-> [ss EXCEPT !.start_button_clicked = FALSE],
          shown |-> <<<<"warning", "Prosze wpisac fraze do wyszukania.">>>>,
          invoked |-> <<>>, time_bound |-> FALSE]
    ELSE IF ss.gemini_api_key = ""
    THEN [ss |-> [ss EXCEPT !.start_button_clicked = FALSE],
          shown |-> <<<<"error", "Prosze wprowadzic klucz API Gemini w panelu bocznym.">>>>,
          invoked |-> <<>>, time_bound |-> FALSE]
    ELSE [ss |-> [ss EXCEPT !.start_button_clicked = FALSE],
          shown |-> <<<<"spinner", "Rozpoczynam wyszukiwanie dla frazy", ss.search_phrase>>,
                      <<"success", "Placeholder: Wyszukiwanie zakonczone (symulacja).", ss.search_phrase>>,
                      <<"write", "Dane wejsciowe:">>,
                      <<"json", ToString(Len(ss.gemini_api_key)), ss.search_phrase,
                        ToString(ss.scroll_count)>>>>,
          invoked |-> <<<<"sleep", "3">>>>, time_bound |-> TRUE]

(* lines 71-100: the handling of Start *)
StartHandling(ss) ==
    IF ~ss.start_button_clicked THEN [ss |-> ss, shown |-> <<>>, invoked |-> <<>>, time_bound |-> FALSE]
    ELSE IF ss.gemini_api_key = ""
    THEN [ss |-> [ss EXCEPT !.start_button_clicked = FALSE],
          shown |-> <<<<"error", "Prosze wprowadzic klucz API Gemini w panelu bocznym.">>>>,
          invoked |-> <<>>, time_bound |-> FALSE]
    ELSE IF ss.search_phrase = ""
    THEN [ss |-> [ss EXCEPT !.start_button_clicked = FALSE],
          shown |-> <<<<"warning", "Prosze wpisac fraze do wyszukania.">>>>,
          invoked |-> <<>>, time_bound |-> FALSE]
    ELSE [ss |-> [ss EXCEPT !.start_button_clicked = FALSE],
          shown |-> <<<<"spinner", "Rozpoczynam wyszukiwanie dla frazy", ss.search_phrase>>,
                      <<"success", "Placeholder: Wyszukiwanie zakonczone (symulacja).", ss.search_phrase>>,
                      <<"write", "Dane wejsciowe:">>,
                      <<"json", ToString(Len(ss.gemini_api_key)), ss.search_phrase,
                        ToString(ss.scroll_count)>>>>,
          invoked |-> <<<<"sleep", "3">>>>, time_bound |-> TRUE]

(* the user did not touch the table: the editor returns the table it is    *)
(* given                                                                   *)
Unedited == [edit |-> "none"]

(* lines 122-135: st.data_editor returns the table it is given as the user *)
(* left it (edit, when the run was caused by an edit), and the session     *)
(* keeps it                                                                *)
DataEditor(ss, edit) ==
    LET Keep(edited_df) ==
            IF ss.results_df # edited_df THEN [ss EXCEPT !.results_df = edited_df] ELSE ss
    IN  Keep(IF edit = Unedited THEN ss.results_df ELSE edit)

(* lines 138-140: the save button is true in the run its click causes *)
SaveButton(ss, pressed) ==
    IF pressed
    THEN [ss EXCEPT !.save_button_clicked = TRUE, !.start_button_clicked = FALSE]
    ELSE ss

(* a bug: no finally clause, save_button_clicked is left as it is *)
SaveHandling_NoReset(ss, time_bound, data_dir, xlsx) ==
    IF ss.save_button_clicked /\ ~DataFrameEmpty(ss.results_df)
    THEN
        IF time_bound
        THEN Ran(ss,
                 <<<<"spinner", "Zapisywanie zmian do data/konkursy_wyniki.xlsx... (placeholder)">>,
                   <<"success", "Placeholder: Zmiany zostalyby zapisane do data/konkursy_wyniki.xlsx">>>>,
                 (IF data_dir THEN <<>> ELSE <<<<"makedirs", "data">>>>) \o <<<<"sleep", "2">>>>,
                 time_bound, TRUE, xlsx)
        ELSE Ran(ss,
                 <<<<"spinner", "Zapisywanie zmian do data/konkursy_wyniki.xlsx... (placeholder)">>,
                   <<"error", "Blad podczas zapisywania zmian (placeholder): name 'time' is not defined">>>>,
                 IF data_dir THEN <<>> ELSE <<<<"makedirs", "data">>>>,
                 time_bound, TRUE, xlsx)
    ELSE Ran(ss, <<>>, <<>>, time_bound, data_dir, xlsx)

(* lines 142-167: the handling of the save button. to_excel is commented   *)
(* out (line 160); time.sleep (line 159) raises NameError unless line 86   *)
(* ran in this run, and the except clause of line 164 shows it             *)
SaveHandling(ss, time_bound, data_dir, xlsx) ==
    IF ss.save_button_clicked /\ ~DataFrameEmpty(ss.results_df)
    THEN
        IF time_bound
        THEN Ran([ss EXCEPT !.save_button_clicked = FALSE],
                 <<<<"spinner", "Zapisywanie zmian do data/konkursy_wyniki.xlsx... (placeholder)">>,
                   <<"success", "Placeholder: Zmiany zostalyby zapisane do data/konkursy_wyniki.xlsx">>>>,
                 (IF data_dir THEN <<>> ELSE <<<<"makedirs", "data">>>>) \o <<<<"sleep", "2">>>>,
                 time_bound, TRUE, xlsx)
        ELSE Ran([ss EXCEPT !.save_button_clicked = FALSE],
                 <<<<"spinner", "Zapisywanie zmian do data/konkursy_wyniki.xlsx... (placeholder)">>,
                   <<"error", "Blad podczas zapisywania zmian (placeholder): name 'time' is not defined">>>>,
                 IF data_dir THEN <<>> ELSE <<<<"makedirs", "data">>>>,
                 time_bound, TRUE, xlsx)
    ELSE Ran(ss, <<>>, <<>>, time_bound, data_dir, xlsx)

(* lines 1-172: one run of the script. start and save tell which button's  *)
(* click caused the run, edited_df is the user's edit of the table, if any *)
Script(ss, start, save, edited_df, data_dir, xlsx) ==
    LET Saved(h, r) == Ran(r.ss, h.shown \o r.shown, h.invoked \o r.invoked, r.time_bound,
                           r.data_dir, r.xlsx)
        Handled(h) ==
            Saved(h, SaveHandling(SaveButton(DataEditor(h.ss, edited_df), save),
                                  h.time_bound, data_dir, xlsx))
    IN  Handled(StartHandling(StartButton(ss, start)))

----------------------------------------------------------------------------
(* State *)

VARIABLES
    phase,              \* "idle", or "returned" after a call of analyze_post
    post_content,       \* analyze_post's arguments
    api_key,
    configure_outcome,  \* what genai.configure did in the call
    generate_outcome,   \* what generate_content did in the call
    outcome,            \* "return" or "raise"
    result,             \* the dictionary returned
    calls,              \* the genai functions called, in order
    log,                \* the records logged, in order
    first,              \* an earlier call: its arguments, outcomes and result
    pc,                 \* where find_contests is
    search_phrase,      \* find_contests' arguments
    scroll_count,
    browse,             \* the Browser, or None
    scrolled,           \* iterations of the scroll loop done
    post_elements,      \* the elements matched, each with what reading it did
    idx,                \* elements processed
    results,            \* the list find_contests builds and returns
    failure,            \* the statement of the session that raised, "" if none
    failure_exc,        \* and the exception it raised
    pending,            \* the exception leaving the try statement, if any
    scraper_outcome,    \* "return" or "raise"
    scraper_calls,      \* the calls on the browser, its elements and time.sleep
    scraper_log,        \* the records find_contests logged, in order
    session_state,      \* st.session_state of the page's session
    event,              \* what caused the last run of the script
    shown,              \* what the last run put on the page: errors, warnings, ...
    invoked,            \* the calls the last run made
    data_dir,           \* whether the directory data exists
    xlsx                \* the file data/konkursy_wyniki.xlsx: a table, or NoFile

extractor_vars == <<phase, post_content, api_key, configure_outcome, generate_outcome,
                    outcome, result, calls, log, configured_key, first>>

scraper_vars == <<pc, search_phrase, scroll_count, browse, scrolled, post_elements, idx,
                  results, failure, failure_exc, pending, scraper_outcome, scraper_calls, scraper_log>>

app_vars == <<session_state, event, shown, invoked, data_dir, xlsx>>

vars == <<extractor_vars, scraper_vars, app_vars>>

----------------------------------------------------------------------------
(* Initial state *)

NoCall == [post_content |-> <<>>, api_key |-> "", configure_outcome |-> NotCalled,
           generate_outcome |-> NotCalled, outcome |-> "none", result |-> <<>>,
           configured_key |-> NoKey]

ExtractorInit ==
    /\ phase = "idle"
    /\ post_content = <<>>
    /\ api_key = ""
    /\ configure_outcome = NotCalled
    /\ generate_outcome = NotCalled
    /\ outcome = "none"
    /\ result = <<>>
    /\ calls = <<>>
    /\ log = <<>>
    /\ configured_key = NoKey
    /\ first = NoCall

ScraperInit ==
    /\ pc = "idle"
    /\ search_phrase = ""
    /\ scroll_count = 0
    /\ browse = "None"
    /\ scrolled = 0
    /\ post_elements = <<>>
    /\ idx = 0
    /\ results = <<>>
    /\ failure = ""
    /\ failure_exc = NoExc
    /\ pending = NoExc
    /\ scraper_outcome = "none"
    /\ scraper_calls = <<>>
    /\ scraper_log = <<>>

(* the page has just been opened: the first run of the script is over *)
AppInit ==
    /\ session_state = NewSession(DataFrame(<<>>))
    /\ event = "open"
    /\ shown = <<>>
    /\ invoked = <<>>
    /\ data_dir = FALSE
    /\ xlsx = NoFile

Init == ExtractorInit /\ ScraperInit /\ AppInit

----------------------------------------------------------------------------
(* analyze_post *)

(* one call of analyze_post(content, key), cfg and gen being what the      *)
(* genai calls do if they are made                                         *)
Analyze(content, key, cfg, gen) ==
    \E r \in {analyze_post(content, key, cfg, gen)} :
    /\ phase' = "returned"
    /\ post_content' = content
    /\ api_key' = key
    /\ configure_outcome' = cfg
    /\ generate_outcome' = gen
    /\ outcome' = r.outcome
    /\ result' = r.result
    /\ calls' = r.calls
    /\ log' = r.log
    /\ configured_key' = IF cfg.kind = "ok" /\ Len(r.calls) > 0 THEN key ELSE configured_key
    /\ UNCHANGED first
    /\ UNCHANGED scraper_vars
    /\ UNCHANGED app_vars

AnalyzeOver(contents, keys, cfgs, gens) ==
    /\ phase = "idle"
    /\ \E content \in contents, key \in keys :
        \E cfg \in IF Consults("configure", content, key, NotCalled) THEN cfgs ELSE {NotCalled} :
            \E gen \in IF Consults("generate_content", content, key, cfg) THEN gens ELSE {NotCalled} :
                Analyze(content, key, cfg, gen)

AnalyzePost == AnalyzeOver(Contents, ApiKeys, ConfigureOutcomes, GenerateOutcomes)

(* the caller takes the record; the per-call mocks are reset *)
NextCall ==
    /\ phase = "returned"
    /\ phase' = "idle"
    /\ post_content' = <<>>
    /\ api_key' = ""
    /\ configure_outcome' = NotCalled
    /\ generate_outcome' = NotCalled
    /\ outcome' = "none"
    /\ result' = <<>>
    /\ calls' = <<>>
    /\ log' = <<>>
    /\ UNCHANGED <<configured_key, first>>
    /\ UNCHANGED scraper_vars
    /\ UNCHANGED app_vars

Next == AnalyzePost \/ NextCall

Spec == Init /\ [][Next]_vars

----------------------------------------------------------------------------
(* find_contests, statement by statement *)

Info(msg) == LogRecord("INFO", msg)

(* a statement of the session raised exc at `step`: the except clause of   *)
(* line 78 runs, then the finally clause                                   *)
SessionFails(step, exc, made) ==
    /\ failure' = step
    /\ failure_exc' = exc
    /\ pending' = SessionHandler(exc).raised
    /\ scraper_calls' = scraper_calls \o made
    /\ scraper_log' = scraper_log \o SessionHandler(exc).log
    /\ pc' = "finally"

(* lines 20-24: find_contests(phrase, count) is called *)
FindContests ==
    /\ pc = "idle"
    /\ \E phrase \in SearchPhrases, count \in 0..MaxScroll :
        /\ search_phrase' = phrase
        /\ scroll_count' = count
    /\ pc' = "Browser"
    /\ browse' = "None"
    /\ results' = <<>>
    /\ scrolled' = 0
    /\ idx' = 0
    /\ post_elements' = <<>>
    /\ failure' = ""
    /\ failure_exc' = NoExc
    /\ pending' = NoExc
    /\ scraper_outcome' = "none"
    /\ scraper_calls' = <<>>
    /\ scraper_log' = <<Info(<<"Initializing browser for scraping">>)>>
    /\ UNCHANGED extractor_vars
    /\ UNCHANGED app_vars

(* line 25: browse = Browser() *)
NewBrowser ==
    /\ pc = "Browser"
    /\ \E o \in SessionOutcomes :
        IF o.kind = "ok"
        THEN /\ browse' = "Browser"
             /\ scraper_calls' = scraper_calls \o <<<<"Browser">>>>
             /\ scraper_log' = scraper_log \o <<Info(<<"Navigating to Facebook...">>)>>
             /\ pc' = "go_to_facebook"
             /\ UNCHANGED <<failure, failure_exc, pending>>
        ELSE /\ SessionFails("Browser", Exc(o.cls, o.msg), <<<<"Browser">>>>)
             /\ UNCHANGED browse
    /\ UNCHANGED <<search_phrase, scroll_count, scrolled, post_elements, idx, results, scraper_outcome>>
    /\ UNCHANGED extractor_vars
    /\ UNCHANGED app_vars

(* lines 28-29: browse.go_to("https://facebook.com") *)
GoToFacebook ==
    /\ pc = "go_to_facebook"
    /\ \E o \in SessionOutcomes :
        IF o.kind = "ok"
        THEN /\ scraper_calls' = scraper_calls \o <<<<"go_to", "https://facebook.com">>>>
             /\ scraper_log' = scraper_log \o <<Info(<<"Pausing for 20 seconds for potential manual login...">>)>>
             /\ pc' = "sleep_login"
             /\ UNCHANGED <<failure, failure_exc, pending>>
        ELSE SessionFails("go_to_facebook", Exc(o.cls, o.msg), <<<<"go_to", "https://facebook.com">>>>)
    /\ UNCHANGED <<search_phrase, scroll_count, browse, scrolled, post_elements, idx, results, scraper_outcome>>
    /\ UNCHANGED extractor_vars
    /\ UNCHANGED app_vars

(* lines 30-33: time.sleep(20) *)
SleepLogin ==
    /\ pc = "sleep_login"
    /\ scraper_calls' = scraper_calls \o <<<<"sleep", "20">>>>
    /\ scraper_log' = scraper_log \o <<Info(<<"Navigating to search URL: ">> \o SearchUrl(search_phrase))>>
    /\ pc' = "go_to_search"
    /\ UNCHANGED <<search_phrase, scroll_count, browse, scrolled, post_elements, idx, results,
                   failure, failure_exc, pending, scraper_outcome>>
    /\ UNCHANGED extractor_vars
    /\ UNCHANGED app_vars

(* lines 34-36: browse.go_to(search_url) *)
GoToSearch ==
    /\ pc = "go_to_search"
    /\ \E o \in SessionOutcomes :
        IF o.kind = "ok"
        THEN /\ scraper_calls' = scraper_calls \o <<<<"go_to">> \o SearchUrl(search_phrase)>>
             /\ scraper_log' = scraper_log \o <<Info(<<"Scrolling down">>)>>
             /\ pc' = "scroll"
             /\ UNCHANGED <<failure, failure_exc, pending>>
        ELSE SessionFails("go_to_search", Exc(o.cls, o.msg), <<<<"go_to">> \o SearchUrl(search_phrase)>>)
    /\ UNCHANGED <<search_phrase, scroll_count, browse, scrolled, post_elements, idx, results, scraper_outcome>>
    /\ UNCHANGED extractor_vars
    /\ UNCHANGED app_vars

(* a bug: the loop does not wait after scrolling *)
ScrollDown_NoSleep ==
    /\ pc = "scroll"
    /\ scrolled < scroll_count
    /\ \E o \in SessionOutcomes :
        IF o.kind = "ok"
        THEN /\ scraper_calls' = scraper_calls \o <<<<"scroll_down">>>>
             /\ scraper_log' = scraper_log \o <<LogRecord("DEBUG", <<"Scroll attempt">>)>>
             /\ scrolled' = scrolled + 1
             /\ pc' = "scroll"
             /\ UNCHANGED <<failure, failure_exc, pending>>
        ELSE /\ SessionFails("scroll_down", Exc(o.cls, o.msg), <<<<"scroll_down">>>>)
             /\ UNCHANGED scrolled
    /\ UNCHANGED <<search_phrase, scroll_count, browse, post_elements, idx, results, scraper_outcome>>
    /\ UNCHANGED extractor_vars
    /\ UNCHANGED app_vars

(* lines 37-40: one iteration of for i in range(scroll_count) *)
ScrollDown ==
    /\ pc = "scroll"
    /\ scrolled < scroll_count
    /\ \E o \in SessionOutcomes :
        IF o.kind = "ok"
        THEN /\ scraper_calls' = scraper_calls \o <<<<"scroll_down">>, <<"sleep", "2">>>>
             /\ scraper_log' = scraper_log \o <<LogRecord("DEBUG", <<"Scroll attempt">>)>>
             /\ scrolled' = scrolled + 1
             /\ pc' = "scroll"
             /\ UNCHANGED <<failure, failure_exc, pending>>
        ELSE /\ SessionFails("scroll_down", Exc(o.cls, o.msg), <<<<"scroll_down">>>>)
             /\ UNCHANGED scrolled
    /\ UNCHANGED <<search_phrase, scroll_count, browse, post_elements, idx, results, scraper_outcome>>
    /\ UNCHANGED extractor_vars
    /\ UNCHANGED app_vars

Selector == "div[role='article']"

(* lines 42-44, after the scroll loop:                                     *)
(* browse.scrape_elements_by_css_selector returns a list of n elements,    *)
(* returns None (len(None) raises TypeError) or raises                     *)
Scrape ==
    /\ pc = "scroll"
    /\ scrolled >= scroll_count
    /\ \/ \E n \in 0..MaxElements :
            /\ post_elements' = [k \in 1..n |-> [text |-> Unread, link |-> Unread]]
            /\ scraper_calls' = scraper_calls \o <<<<"scrape_elements_by_css_selector", Selector>>>>
            /\ scraper_log' = scraper_log
                   \o <<Info(<<"Scraping post elements with selector">>), Info(<<"Found potential post elements">>)>>
            /\ pc' = "elements"
            /\ UNCHANGED <<failure, failure_exc, pending>>
       \/ /\ SessionFails("len", Exc("TypeError", "object of type 'NoneType' has no len()"),
                          <<<<"scrape_elements_by_css_selector", Selector>>>>)
          /\ UNCHANGED post_elements
       \/ \E o \in SessionOutcomes \ {Ok} :
            /\ SessionFails("scrape_elements_by_css_selector", Exc(o.cls, o.msg),
                            <<<<"scrape_elements_by_css_selector", Selector>>>>)
            /\ UNCHANGED post_elements
    /\ UNCHANGED <<search_phrase, scroll_count, browse, scrolled, idx, results, scraper_outcome>>
    /\ UNCHANGED extractor_vars
    /\ UNCHANGED app_vars

(* the element reads its link only if the iteration asks for it *)
ReadsLink(n, text) ==
    \E r \in {ProcessElement(n, text, Unread)} :
        \E k \in 1..Len(r.calls) : r.calls[k][1] = "find_element_by_css_selector"

(* lines 46-76: one iteration of for i, post_element in enumerate(...) *)
Element ==
    /\ pc = "elements"
    /\ idx < Len(post_elements)
    /\ \E text \in TextOutcomes :
        \E link \in IF ReadsLink(idx + 1, text) THEN LinkOutcomes ELSE {Unread} :
            \E r \in {ProcessElement(idx + 1, text, link)} :
                /\ post_elements' = [post_elements EXCEPT ![idx + 1] = [text |-> text, link |-> link]]
                /\ idx' = idx + 1
                /\ IF r.raised = NoExc
                   THEN /\ results' = results \o r.append
                        /\ scraper_calls' = scraper_calls \o r.calls
                        /\ scraper_log' = scraper_log \o r.log
                        /\ pc' = "elements"
                        /\ UNCHANGED <<failure, failure_exc, pending>>
                   ELSE /\ SessionFails("element", r.raised, r.calls)
                        /\ UNCHANGED results
    /\ UNCHANGED <<search_phrase, scroll_count, browse, scrolled, scraper_outcome>>
    /\ UNCHANGED extractor_vars
    /\ UNCHANGED app_vars

(* lines 81-95: the finally clause, then return results (or the exception  *)
(* no clause handled goes on to the caller)                                *)
Finally ==
    /\ \/ pc = "finally"
       \/ pc = "elements" /\ idx >= Len(post_elements)
    /\ scraper_log' = scraper_log
           \o (IF browse # "None" THEN <<Info(<<"Attempting to close the browser.">>)>> ELSE <<>>)
           \o <<Info(<<"Scraping finished.">>)>>
    /\ scraper_outcome' = IF pending = NoExc THEN "return" ELSE "raise"
    /\ pc' = "returned"
    /\ UNCHANGED <<search_phrase, scroll_count, browse, scrolled, post_elements, idx, results,
                   failure, failure_exc, pending, scraper_calls>>
    /\ UNCHANGED extractor_vars
    /\ UNCHANGED app_vars

(* the caller takes the list *)
ScraperNextCall ==
    /\ pc = "returned"
    /\ pc' = "idle"
    /\ UNCHANGED <<search_phrase, scroll_count, browse, scrolled, post_elements, idx, results,
                   failure, failure_exc, pending, scraper_outcome, scraper_calls, scraper_log>>
    /\ UNCHANGED extractor_vars
    /\ UNCHANGED app_vars

ScraperNext ==
    \/ FindContests
    \/ NewBrowser
    \/ GoToFacebook
    \/ SleepLogin
    \/ GoToSearch
    \/ ScrollDown
    \/ Scrape
    \/ Element
    \/ Finally
    \/ ScraperNextCall

SpecScraper == Init /\ [][ScraperNext]_vars

----------------------------------------------------------------------------
(* Re-running analyze_post: the mocks are scripted before every call, as   *)
(* the tests script them, whether or not the call consults them; one call  *)
(* is remembered and later calls are compared with it                      *)

RerunTexts ==
    { <<"{">> \o Pair(expected_keys[1], Str("x")) \o <<"}">>,
      <<"x", "{", "}", "x">>,
      <<"[", "1", "]">>,
      <<"x">> }

AnalyzeScripted ==
    /\ phase = "idle"
    /\ \E content \in {<<>>, <<"a">>}, key \in ApiKeys,
          cfg \in {Ok, Raise("Exception", "m1")},
          gen \in {Raise("Exception", "m1"), Raise("JSONDecodeError", "m1")}
                  \cup {Response(t) : t \in RerunTexts} :
            Analyze(content, key, cfg, gen)

Remember ==
    /\ phase = "returned"
    /\ first = NoCall
    /\ first' = [post_content |-> post_content, api_key |-> api_key,
                 configure_outcome |-> configure_outcome, generate_outcome |-> generate_outcome,
                 outcome |-> outcome, result |-> result, configured_key |-> configured_key]
    /\ UNCHANGED <<phase, post_content, api_key, configure_outcome, generate_outcome,
                   outcome, result, calls, log, configured_key>>
    /\ UNCHANGED scraper_vars
    /\ UNCHANGED app_vars

RerunNext == AnalyzeScripted \/ Remember \/ NextCall

SpecRerun == Init /\ [][RerunNext]_vars

----------------------------------------------------------------------------
(* The page: every event runs the script once, after the on_change         *)
(* callback of the widget that changed                                     *)

(* the script runs over the session state ss because of the widget ev *)
ScriptRuns(ev, ss, start, save, edited_df) ==
    \E r \in {Script(ss, start, save, edited_df, data_dir, xlsx)} :
        /\ session_state' = r.ss
        /\ event' = ev
        /\ shown' = r.shown
        /\ invoked' = r.invoked
        /\ data_dir' = r.data_dir
        /\ xlsx' = r.xlsx
        /\ UNCHANGED extractor_vars
        /\ UNCHANGED scraper_vars

(* lines 27-33: the key is typed; on_change stores it *)
ChangeKey ==
    \E v \in ApiKeys \ {session_state.gemini_api_key} :
        ScriptRuns("gemini_api_key_input", [session_state EXCEPT !.gemini_api_key = v],
                   FALSE, FALSE, Unedited)

(* lines 46-51: the phrase is typed; on_change stores it *)
ChangePhrase ==
    \E v \in SearchInputs \ {session_state.search_phrase} :
        ScriptRuns("search_phrase_input", [session_state EXCEPT !.search_phrase = v],
                   FALSE, FALSE, Unedited)

(* lines 54-61: the slider is moved; on_change stores its value *)
ChangeScroll ==
    \E v \in (SliderMin..SliderMax) \ {session_state.scroll_count} :
        ScriptRuns("scroll_count_input", [session_state EXCEPT !.scroll_count = v],
                   FALSE, FALSE, Unedited)

(* line 64: Start is clicked *)
ClickStart ==
    ScriptRuns("start_button", session_state, TRUE, FALSE, Unedited)

(* lines 122-129: the table is edited; the editor is disabled while the    *)
(* table is empty                                                          *)
EditTable ==
    /\ ~DataFrameEmpty(session_state.results_df)
    /\ \E edited_df \in Tables \ {session_state.results_df} :
        ScriptRuns("data_editor_widget", session_state, FALSE, FALSE, edited_df)

(* line 138: the save button is clicked; it is disabled while the table is *)
(* empty                                                                   *)
ClickSave ==
    /\ ~DataFrameEmpty(session_state.results_df)
    /\ ScriptRuns("save_button", session_state, FALSE, TRUE, Unedited)

AppNext == ChangeKey \/ ChangePhrase \/ ChangeScroll \/ ClickStart

SpecApp == Init /\ [][AppNext]_vars

(* A session that holds a table: line 103 keeps the results_df it finds in *)
(* st.session_state. Nothing in app.py puts rows there (lines 97-98), so   *)
(* the editor and the save button are reached only from such a session     *)
SessionWithTable ==
    /\ session_state \in {NewSession(df) : df \in Tables}
    /\ event = "open"
    /\ shown = <<>>
    /\ invoked = <<>>
    /\ data_dir \in BOOLEAN
    /\ xlsx = NoFile

InitSave == ExtractorInit /\ ScraperInit /\ SessionWithTable

SaveNext == AppNext \/ EditTable \/ ClickSave

SpecSave == InitSave /\ [][SaveNext]_vars

----------------------------------------------------------------------------
(* Properties of analyze_post *)

Returned == phase = "returned"

Logged(level, prefix) == \E i \in 1..Len(log) : log[i].level = level /\ log[i].msg[1] = prefix

AllFields(d, value) == \A k \in ExpectedKeySet : d[k] = value

(* the substring from the first '{' to the last '}' of a text that has both *)
HasBraces(text) ==
    /\ \E i \in 1..Len(text) : text[i] = "{"
    /\ \E i \in 1..Len(text) : text[i] = "}"

Between(text) ==
    SubSeq(text,
           CHOOSE i \in 1..Len(text) : text[i] = "{" /\ \A j \in 1..(i - 1) : text[j] # "{",
           CHOOSE i \in 1..Len(text) : text[i] = "}" /\ \A j \in (i + 1)..Len(text) : text[j] # "}")

GotText == Returned /\ generate_outcome.kind = "return"

ObjectInside == GotText /\ HasBraces(generate_outcome.text)
                        /\ json_loads(Between(generate_outcome.text)).ok

FailureKinds ==
    { <<<<"Blad konfiguracji">>, "API key is missing">>,
      <<<<"Blad konfiguracji API">>, "Error configuring Gemini API: ">>,
      <<None, "Empty post content">>,
      <<<<"Blad parsowania JSON">>, "Invalid JSON response">>,
      <<<<"Blad API">>, "API Error: ">> }

IsSuccessRecord(d) == DOMAIN d = ExpectedKeySet

IsErrorRecord(d) ==
    /\ DOMAIN d = ExpectedKeySet \cup {"error"}
    /\ \E fk \in FailureKinds : AllFields(d, fk[1]) /\ d["error"][1] = fk[2]

(* C1: whatever the arguments and whatever genai.configure and             *)
(* generate_content do, analyze_post returns (no exception reaches the     *)
(* caller) a dictionary that is either a success record, exactly the three *)
(* expected keys and no "error", or an error record: the three keys with   *)
(* one marker and an "error" naming one of the five failure kinds.         *)
C1_ReturnsRecord ==
    Returned => /\ outcome = "return"
                /\ IsSuccessRecord(result) \/ IsErrorRecord(result)

C1_Witness == GotText /\ IsSuccessRecord(result)

(* C2: with an empty api_key the call returns the "Blad konfiguracji"      *)
(* record with error "API key is missing" and logs an ERROR, for every     *)
(* post_content, and calls neither genai.configure nor the model.          *)
C2_MissingKey ==
    Returned /\ api_key = "" =>
        /\ outcome = "return"
        /\ result = [zadanie_konkursowe |-> <<"Blad konfiguracji">>,
                     miejsce_zgloszenia |-> <<"Blad konfiguracji">>,
                     termin_zakonczenia |-> <<"Blad konfiguracji">>,
                     error |-> <<"API key is missing">>]
        /\ Logged("ERROR", "API key is missing.")
        /\ calls = <<>>

C2_Witness ==
    Returned /\ api_key = "" /\ Len(post_content) > 0 /\ IsBlank(post_content)
             /\ Logged("ERROR", "API key is missing.")

(* C3: with a key, when genai.configure raises, the call returns the       *)
(* "Blad konfiguracji API" record whose error carries the message, logs an *)
(* ERROR, has called configure once with that key and nothing else, also   *)
(* when post_content is blank.                                             *)
C3_ConfigureRaises ==
    Returned /\ api_key # "" /\ configure_outcome.kind = "raise" =>
        /\ outcome = "return"
        /\ result = [zadanie_konkursowe |-> <<"Blad konfiguracji API">>,
                     miejsce_zgloszenia |-> <<"Blad konfiguracji API">>,
                     termin_zakonczenia |-> <<"Blad konfiguracji API">>,
                     error |-> <<"Error configuring Gemini API: ", configure_outcome.msg>>]
        /\ \E i \in 1..Len(log) :
              log[i] = LogRecord("ERROR", <<"Error configuring Gemini API: ", configure_outcome.msg>>)
        /\ calls = <<<<"configure", api_key>>>>

C3_Witness ==
    Returned /\ api_key # "" /\ configure_outcome.kind = "raise" /\ IsBlank(post_content)
             /\ result["error"][1] = "Error configuring Gemini API: "

(* C4: with a key and genai.configure succeeding, an empty or white-space  *)
(* post_content ends the call early: the record with three None fields    *)
(* and error "Empty post content", a WARNING, configure called once and    *)
(* generate_content never.                                                 *)
C4_EmptyContent ==
    Returned /\ api_key # "" /\ configure_outcome.kind = "ok"
             /\ (\A i \in 1..Len(post_content) : post_content[i] = " ") =>
        /\ outcome = "return"
        /\ result = [zadanie_konkursowe |-> None, miejsce_zgloszenia |-> None,
                     termin_zakonczenia |-> None, error |-> <<"Empty post content">>]
        /\ Logged("WARNING", "Post content is empty. Skipping analysis.")
        /\ calls = <<<<"configure", api_key>>>>

C4_Witness ==
    Returned /\ api_key # "" /\ configure_outcome.kind = "ok"
             /\ Len(post_content) > 0 /\ IsBlank(post_content)
             /\ result["error"] = <<"Empty post content">>

(* C5: when the response text decodes neither as the substring from its    *)
(* first '{' to its last '}' nor as a whole, the call returns the "Blad    *)
(* parsowania JSON" record with error "Invalid JSON response" and logs     *)
(* both "Could not find JSON in response" and "Error decoding JSON from AI *)
(* response" as ERRORs.                                                    *)
Undecodable(text) ==
    /\ HasBraces(text) => ~json_loads(Between(text)).ok
    /\ ~json_loads(text).ok

C5_MalformedResponse ==
    GotText /\ Undecodable(generate_outcome.text) =>
        /\ outcome = "return"
        /\ result = [zadanie_konkursowe |-> <<"Blad parsowania JSON">>,
                     miejsce_zgloszenia |-> <<"Blad parsowania JSON">>,
                     termin_zakonczenia |-> <<"Blad parsowania JSON">>,
                     error |-> <<"Invalid JSON response">>]
        /\ Logged("ERROR", "Could not find JSON in response: ")
        /\ Logged("ERROR", "Error decoding JSON from AI response: ")

C5_Witness ==
    GotText /\ Undecodable(generate_outcome.text) /\ HasBraces(generate_outcome.text)
            /\ Len(Between(generate_outcome.text)) > 1
            /\ result["error"] = <<"Invalid JSON response">>

(* C6 as claimed: whenever generate_content raises, the call returns the   *)
(* "Blad API" record with error "API Error: <message>" and logs the ERROR  *)
(* "Error calling Gemini API: <message>".                                  *)
C6_AnyRaiseIsApiError ==
    Returned /\ generate_outcome.kind = "raise" =>
        /\ outcome = "return"
        /\ AllFields(result, <<"Blad API">>)
        /\ result["error"] = <<"API Error: ", generate_outcome.msg>>
        /\ \E i \in 1..Len(log) :
              log[i] = LogRecord("ERROR", <<"Error calling Gemini API: ", generate_outcome.msg>>)

(* C6 as amended: when generate_content raises an exception that is not a  *)
(* json.JSONDecodeError, the call returns the "Blad API" record with error *)
(* "API Error: <message>" and logs the ERROR "Error calling Gemini API:    *)
(* <message>"; when it raises a json.JSONDecodeError, the call returns the *)
(* "Blad parsowania JSON" record and logs "Error decoding JSON from AI     *)
(* response: <message>. Response text: N/A"; the exception reaches the     *)
(* caller in neither case.                                                 *)
C6_RaiseByClass ==
    Returned /\ generate_outcome.kind = "raise" =>
        /\ outcome = "return"
        /\ DOMAIN result = ExpectedKeySet \cup {"error"}
        /\ IF generate_outcome.cls = "JSONDecodeError"
           THEN /\ AllFields(result, <<"Blad parsowania JSON">>)
                /\ result["error"] = <<"Invalid JSON response">>
                /\ log = <<LogRecord("ERROR", <<"Error decoding JSON from AI response: ",
                                               generate_outcome.msg, ". Response text: ", "N/A">>)>>
           ELSE /\ AllFields(result, <<"Blad API">>)
                /\ result["error"] = <<"API Error: ", generate_outcome.msg>>
                /\ log = <<LogRecord("ERROR", <<"Error calling Gemini API: ", generate_outcome.msg>>)>>

C6_Witness ==
    Returned /\ generate_outcome.kind = "raise" /\ generate_outcome.cls = "ValueError"
             /\ AllFields(result, <<"Blad API">>)

(* C7: when the substring from the first '{' to the last '}' of the        *)
(* response text is a JSON object, the call returns a success record, the  *)
(* one it returns for that substring alone: the text before the first '{'  *)
(* and after the last '}' changes nothing.                                 *)
C7_SurroundingTextIgnored ==
    ObjectInside =>
        /\ outcome = "return"
        /\ IsSuccessRecord(result)
        /\ result = analyze_post(post_content, api_key, configure_outcome,
                                 Response(Between(generate_outcome.text))).result

C7_Witness ==
    ObjectInside /\ generate_outcome.text[1] = "x"
                 /\ generate_outcome.text[Len(generate_outcome.text)] = "x"
                 /\ result[expected_keys[1]] # None

(* C8: the record made from a decoded object has exactly the three         *)
(* expected keys; each holds the object's value for the key (null is       *)
(* None), None when the object has no such key; the object's other keys    *)
(* are dropped.                                                            *)
Decoded == json_loads(Between(generate_outcome.text)).pairs

LastValue(pairs, key) ==
    LET at == {i \in 1..Len(pairs) : pairs[i][1] = key}
    IN  pairs[CHOOSE i \in at : \A j \in at : j <= i][2]

C8_Normalized ==
    ObjectInside =>
        /\ DOMAIN result = ExpectedKeySet
        /\ \A k \in ExpectedKeySet :
              IF \E i \in 1..Len(Decoded) : Decoded[i][1] = <<k>>
              THEN result[k] = LastValue(Decoded, <<k>>)
              ELSE result[k] = None

C8_Witness ==
    /\ ObjectInside
    /\ \E i \in 1..Len(Decoded) : Decoded[i] = <<<<"zadanie_konkursowe">>, None>>
    /\ \E i \in 1..Len(Decoded) : Decoded[i][1] = <<"termin_zakonczenia">> /\ Decoded[i][2] # None
    /\ \E i \in 1..Len(Decoded) : Decoded[i][1] = <<"error">>
    /\ ~\E i \in 1..Len(Decoded) : Decoded[i][1] = <<"miejsce_zgloszenia">>
    /\ result["miejsce_zgloszenia"] = None
    /\ result["termin_zakonczenia"] # None

(* C9: a call of analyze_post with the post_content, the api_key and the   *)
(* scripted genai outcomes of an earlier call returns the record the       *)
(* earlier call returned, whatever calls were made in between.             *)
SameInputs ==
    /\ post_content = first.post_content
    /\ api_key = first.api_key
    /\ configure_outcome = first.configure_outcome
    /\ generate_outcome = first.generate_outcome

CallsOf(name) == Cardinality({i \in 1..Len(calls) : calls[i][1] = name})

(* C17: a call of analyze_post calls generate_content at most once and     *)
(* genai.configure at most once; it calls generate_content exactly once    *)
(* when api_key is non-empty, configure succeeds and post_content is not   *)
(* blank, whether the call raises, returns malformed text or returns a     *)
(* valid object.                                                           *)
C17_NoRetry ==
    Returned =>
        /\ CallsOf("generate_content") <= 1
        /\ CallsOf("configure") <= 1
        /\ (/\ api_key # ""
            /\ configure_outcome.kind = "ok"
            /\ \E i \in 1..Len(post_content) : post_content[i] # " ")
              => CallsOf("generate_content") = 1

C17_Witness ==
    /\ Returned /\ generate_outcome.kind = "raise"
    /\ CallsOf("generate_content") = 1 /\ CallsOf("configure") = 1
    /\ result["error"][1] = "API Error: "

(* C18: when generate_content returned a response whose text is a str,    *)
(* analyze_post returns a success record or the 'Blad parsowania JSON'     *)
(* record, never the 'Blad API' record, also when the text decodes to a    *)
(* JSON value that is not an object.                                       *)
C18_ApiErrorOnlyFromCall ==
    GotText =>
        /\ outcome = "return"
        /\ \/ IsSuccessRecord(result)
           \/ /\ AllFields(result, <<"Blad parsowania JSON">>)
              /\ result["error"] = <<"Invalid JSON response">>
        /\ ~AllFields(result, <<"Blad API">>)

(* the decoded object has the key *)
InDecoded(key) == \E i \in 1..Len(Decoded) : Decoded[i][1] = <<key>>

LoggedAt(levels) == {i \in 1..Len(log) : log[i].level \in levels}

(* C20: when the response decodes to an object, analyze_post returns the   *)
(* success record and logs nothing at ERROR or above; it logs the WARNING  *)
(* 'AI response missing some expected keys', once, exactly when the object *)
(* lacks one of the three expected keys, and no WARNING when it has all    *)
(* three, null values included.                                            *)
C20_WarningIffKeyMissing ==
    ObjectInside =>
        /\ outcome = "return"
        /\ IsSuccessRecord(result)
        /\ LoggedAt({"ERROR", "CRITICAL"}) = {}
        /\ \A i \in LoggedAt({"WARNING"}) : log[i].msg[1] = "AI response missing some expected keys"
        /\ Cardinality(LoggedAt({"WARNING"}))
              = IF \A k \in ExpectedKeySet : InDecoded(k) THEN 0 ELSE 1

C20_Witness ==
    /\ ObjectInside
    /\ \A k \in ExpectedKeySet : InDecoded(k)
    /\ \E i \in 1..Len(Decoded) : Decoded[i] = <<<<"miejsce_zgloszenia">>, None>>
    /\ LoggedAt({"WARNING", "ERROR", "CRITICAL"}) = {}
    /\ result["miejsce_zgloszenia"] = None

(* the call went to the parse of the whole text: the except clause of     *)
(* line 75 logged                                                          *)
FellBack == Logged("ERROR", "Could not find JSON in response: ")

(* C21: when generate_content returned a text, analyze_post parses the     *)
(* whole text exactly when the text has no substring from its first '{'    *)
(* to its last '}' or that substring does not decode, and a call that      *)
(* parsed the whole text returns an error record, never a success record:  *)
(* a text that decodes as a whole to an object decodes through the         *)
(* substring.                                                              *)
C21_FallbackNeverSucceeds ==
    GotText =>
        /\ FellBack <=> ~ObjectInside
        /\ FellBack =>
              /\ outcome = "return"
              /\ IsErrorRecord(result)
              /\ ~IsSuccessRecord(result)
        /\ json_loads(generate_outcome.text).ok /\ json_loads(generate_outcome.text).type = "dict"
              => ObjectInside /\ ~FellBack

C21_Witness ==
    /\ GotText /\ FellBack
    /\ json_loads(generate_outcome.text).ok
    /\ json_loads(generate_outcome.text).type = "list"
    /\ IsErrorRecord(result)

----------------------------------------------------------------------------
(* Properties of find_contests *)

SessionSteps ==
    {"Browser", "go_to_facebook", "go_to_search", "scroll_down", "scrape_elements_by_css_selector"}

Errors == {i \in 1..Len(scraper_log) : scraper_log[i].level = "ERROR"}

(* C10: when Browser(), either go_to, a scroll_down or the element query   *)
(* raises, find_contests returns the empty list (the exception does not    *)
(* reach the caller) and logs exactly one ERROR, which holds the           *)
(* exception's message.                                                    *)
C10_SessionFailureCaught ==
    pc = "returned" /\ failure \in SessionSteps =>
        /\ scraper_outcome = "return"
        /\ results = <<>>
        /\ Cardinality(Errors) = 1
        /\ \A i \in Errors :
              \E k \in 1..Len(scraper_log[i].msg) : scraper_log[i].msg[k] = failure_exc.msg

C10_Witness ==
    pc = "returned" /\ failure = "scroll_down" /\ scrolled > 0 /\ scraper_outcome = "return"

(* the session got as far as the element loop: nothing before it raised *)
SessionPassed == failure \notin SessionSteps \cup {"len"}

(* what reading the element gave is not a text with a link *)
ElementFails(e) ==
    ~ /\ e.text.kind = "value" /\ e.text.text # <<>>
      /\ e.link.kind = "value" /\ e.link.text # <<>> /\ e.link.text # None

(* the WARNING records about the element number n *)
Warnings(n) ==
    {i \in 1..Len(scraper_log) : scraper_log[i].level = "WARNING" /\ scraper_log[i].msg[2] = ToString(n)}

(* the matched elements that gave a text and a link *)
Extracted == {n \in 1..Len(post_elements) : ~ElementFails(post_elements[n])}

(* C11: when the element query succeeded, an element whose text is empty,  *)
(* whose link element or href is missing, or whose read raises, is skipped *)
(* with one WARNING about that element and nothing else: every matched     *)
(* element is processed, the call returns, logs no ERROR, and returns one  *)
(* record for every element that gave a text and a link, before or after   *)
(* the failing one.                                                        *)
C11_ElementFailureSkipped ==
    pc = "returned" /\ SessionPassed =>
        /\ scraper_outcome = "return"
        /\ idx = Len(post_elements)
        /\ \A n \in 1..Len(post_elements) :
              /\ post_elements[n].text # Unread
              /\ Cardinality(Warnings(n)) = IF ElementFails(post_elements[n]) THEN 1 ELSE 0
              /\ ~ElementFails(post_elements[n]) =>
                    \E k \in 1..Len(results) :
                        results[k] = [content |-> post_elements[n].text.text,
                                      link |-> post_elements[n].link.text]
        /\ Len(results) = Cardinality(Extracted)
        /\ Errors = {}

C11_Witness ==
    /\ pc = "returned" /\ SessionPassed /\ Len(post_elements) = 2
    /\ post_elements[1].link.kind = "find_raises"
    /\ ~ElementFails(post_elements[2])
    /\ Len(results) = 1

(* one record for each element of es that gave a text and a link, in the   *)
(* order of es                                                             *)
RECURSIVE RecordsOf(_)
RecordsOf(es) ==
    IF es = <<>> THEN <<>>
    ELSE (IF ElementFails(Head(es)) THEN <<>>
          ELSE <<[content |-> Head(es).text.text, link |-> Head(es).link.text]>>)
         \o RecordsOf(Tail(es))

(* C12: when nothing in the session raised, find_contests returns, in the  *)
(* order the elements were matched, one record for each element with a     *)
(* non-empty text and a non-empty href, holding that text as content and   *)
(* that href as link, and nothing else; each record has exactly the keys   *)
(* content and link; with no matched element it returns [] and logs no     *)
(* ERROR.                                                                  *)
C12_OneRecordPerElement ==
    pc = "returned" /\ failure = "" =>
        /\ scraper_outcome = "return"
        /\ results = RecordsOf(post_elements)
        /\ \A k \in 1..Len(results) :
              /\ DOMAIN results[k] = {"content", "link"}
              /\ results[k].content # <<>>
              /\ results[k].link # <<>> /\ results[k].link # None
        /\ Len(post_elements) = 0 => results = <<>> /\ Errors = {}

C12_Witness ==
    /\ pc = "returned" /\ failure = "" /\ Len(post_elements) = 2
    /\ Len(results) = 2 /\ results[1].content # results[2].content
    /\ results[1].link # results[2].link

(* the calls on Browser, the browser and time.sleep, in the order made *)
IsSessionCall(c) ==
    c[1] \in {"Browser", "go_to", "sleep", "scroll_down", "scrape_elements_by_css_selector"}

SessionCalls == SelectSeq(scraper_calls, IsSessionCall)

IsQuery(c) == c[1] = "scrape_elements_by_css_selector"

Queries == SelectSeq(scraper_calls, IsQuery)

(* a session in which nothing raises, for the arguments of the call *)
FullSession ==
    << <<"Browser">>,
       <<"go_to", "https://facebook.com">>,
       <<"sleep", "20">>,
       <<"go_to", "https://www.facebook.com/search/posts/?q=", search_phrase>> >>
    \o [i \in 1..(2 * scroll_count) |-> IF i % 2 = 1 THEN <<"scroll_down">> ELSE <<"sleep", "2">>]
    \o << <<"scrape_elements_by_css_selector", "div[role='article']">> >>

IsPrefix(a, b) == Len(a) <= Len(b) /\ a = SubSeq(b, 1, Len(a))

(* the calls made so far are the first calls of the full session, and the  *)
(* elements are read only after the element query                          *)
InSessionOrder ==
    /\ IsPrefix(SessionCalls, FullSession)
    /\ \A i \in 1..Len(scraper_calls) :
          ~IsSessionCall(scraper_calls[i]) =>
              \E j \in 1..(i - 1) : IsQuery(scraper_calls[j])

(* C13 as stated: the session follows the fixed order go_to facebook,      *)
(* sleep(20), go_to the search URL with the phrase verbatim, the scrolls,  *)
(* the element query, and every call of find_contests issues the element   *)
(* query exactly once.                                                     *)
C13_QueryOncePerCall ==
    /\ InSessionOrder
    /\ pc = "returned" => Len(Queries) = 1

(* C13 as amended: the same order; the element query is issued at most     *)
(* once in a call, and exactly once when no earlier step of the session    *)
(* raised.                                                                 *)
C13_SessionOrder ==
    /\ InSessionOrder
    /\ Len(Queries) <= 1
    /\ pc = "returned" /\ failure \notin {"Browser", "go_to_facebook", "go_to_search", "scroll_down"}
          => /\ Len(Queries) = 1
             /\ SessionCalls = FullSession

C13_Witness ==
    /\ pc = "returned" /\ failure = "" /\ scroll_count = 2
    /\ search_phrase = "wygraj nagrody"
    /\ Len(Queries) = 1 /\ Len(results) > 0

IsScroll(c) == c[1] = "scroll_down"

IsSleep(c) == c[1] = "sleep"

(* C14: in a call in which nothing raises, scroll_down is called exactly   *)
(* scroll_count times, the call right after each scroll_down is sleep(2),  *)
(* and the sleep calls are sleep(20) followed by scroll_count times        *)
(* sleep(2): scroll_count + 1 of them.                                     *)
C14_ScrollsAndSleeps ==
    pc = "returned" /\ failure = "" =>
        /\ Len(SelectSeq(scraper_calls, IsScroll)) = scroll_count
        /\ \A i \in 1..Len(scraper_calls) :
              IsScroll(scraper_calls[i]) =>
                  i < Len(scraper_calls) /\ scraper_calls[i + 1] = <<"sleep", "2">>
        /\ Len(SelectSeq(scraper_calls, IsSleep)) = scroll_count + 1
        /\ SelectSeq(scraper_calls, IsSleep)
              = <<<<"sleep", "20">>>> \o [i \in 1..scroll_count |-> <<"sleep", "2">>]

C14_Witness ==
    /\ pc = "returned" /\ failure = "" /\ scroll_count = 2
    /\ Len(SelectSeq(scraper_calls, IsScroll)) = 2

(* the calls made on the element number n to find its link *)
LinkLookups(n) ==
    {i \in 1..Len(scraper_calls) :
        /\ scraper_calls[i][1] \in {"find_element_by_css_selector", "get_attribute"}
        /\ scraper_calls[i][2] = ToString(n)}

AllWarnings == {i \in 1..Len(scraper_log) : scraper_log[i].level = "WARNING"}

(* C22: in a call in which nothing of the session raised, the number of    *)
(* records returned plus the number of WARNINGs logged is the number of    *)
(* matched elements, no element has more than one WARNING, no ERROR is     *)
(* logged, and no link is looked up on an element whose text is empty.     *)
C22_EveryElementAccounted ==
    pc = "returned" /\ failure = "" =>
        /\ Len(results) + Cardinality(AllWarnings) = Len(post_elements)
        /\ \A n \in 1..Len(post_elements) : Cardinality(Warnings(n)) <= 1
        /\ AllWarnings = UNION {Warnings(n) : n \in 1..Len(post_elements)}
        /\ Errors = {}
        /\ \A n \in 1..Len(post_elements) :
              post_elements[n].text = Value(<<>>) =>
                  /\ LinkLookups(n) = {}
                  /\ Cardinality(Warnings(n)) = 1

C22_Witness ==
    /\ pc = "returned" /\ failure = "" /\ Len(post_elements) = 2
    /\ post_elements[1].text = Value(<<>>)
    /\ LinkLookups(1) = {} /\ LinkLookups(2) # {}
    /\ Len(results) = 1 /\ Cardinality(AllWarnings) = 1

----------------------------------------------------------------------------
(* Properties of the page *)

(* the last run was caused by Start, with a key and a phrase stored *)
StartedValid ==
    /\ event = "start_button"
    /\ session_state.gemini_api_key # ""
    /\ session_state.search_phrase # ""

IsScraperCall(c) == c[1] = "find_contests"

IsExtractorCall(c) == c[1] = "analyze_post"

(* C15: the run that Start causes, with a non-empty key and a non-empty    *)
(* phrase stored, calls find_contests with the phrase and the scroll       *)
(* count, then analyze_post on the posts, and leaves in results_df one row *)
(* for each post analysed.                                                 *)
C15_StartRunsPipeline ==
    StartedValid =>
        /\ \E i \in 1..Len(invoked) :
              /\ invoked[i] = <<"find_contests", session_state.search_phrase,
                                ToString(session_state.scroll_count)>>
              /\ \A j \in 1..Len(invoked) : IsExtractorCall(invoked[j]) => i < j
        /\ Len(SelectSeq(invoked, IsScraperCall)) = 1
        /\ Len(session_state.results_df.rows) = Len(SelectSeq(invoked, IsExtractorCall))

KeyErrorShown == <<<<"error", "Prosze wprowadzic klucz API Gemini w panelu bocznym.">>>>

PhraseWarningShown == <<<<"warning", "Prosze wpisac fraze do wyszukania.">>>>

(* C19: when Start is clicked with no key stored, the run shows the error  *)
(* about the key, whatever the phrase; with a key but no phrase stored it  *)
(* shows the warning about the phrase; in both cases it shows nothing      *)
(* else and makes no call (no search is started), start_button_clicked is  *)
(* False afterwards, and the stored key, phrase, scroll count and the      *)
(* result table are as before.                                             *)
C19_StartValidation ==
    [][ClickStart /\ (session_state.gemini_api_key = "" \/ session_state.search_phrase = "") =>
          /\ shown' = IF session_state.gemini_api_key = "" THEN KeyErrorShown ELSE PhraseWarningShown
          /\ invoked' = <<>>
          /\ session_state'.start_button_clicked = FALSE
          /\ session_state'.gemini_api_key = session_state.gemini_api_key
          /\ session_state'.search_phrase = session_state.search_phrase
          /\ session_state'.scroll_count = session_state.scroll_count
          /\ session_state'.results_df = session_state.results_df
          /\ xlsx' = xlsx]_vars

C19_Witness ==
    /\ event = "start_button"
    /\ session_state.gemini_api_key = "" /\ session_state.search_phrase # ""
    /\ shown = KeyErrorShown
    /\ ~session_state.start_button_clicked

(* what the handling of Start puts on the page *)
FromStartHandling(m) ==
    \/ <<m>> = KeyErrorShown
    \/ <<m>> = PhraseWarningShown
    \/ m[2] \in {"Rozpoczynam wyszukiwanie dla frazy",
                  "Placeholder: Wyszukiwanie zakonczone (symulacja).", "Dane wejsciowe:"}
    \/ m[1] = "json"

(* what the handling of the save button puts on the page *)
FromSaveHandling(m) ==
    m[2] \in {"Zapisywanie zmian do data/konkursy_wyniki.xlsx... (placeholder)",
              "Placeholder: Zmiany zostalyby zapisane do data/konkursy_wyniki.xlsx",
              "Blad podczas zapisywania zmian (placeholder): name 'time' is not defined"}

(* C23: after every run of the script, whatever was clicked or typed       *)
(* before, start_button_clicked and save_button_clicked are both False; a  *)
(* click is handled in the run it causes and in no other run: the output   *)
(* of the Start handling is on the page exactly after a run caused by      *)
(* Start, that of the save handling exactly after a run caused by the      *)
(* save button.                                                            *)
C23_ButtonFlagsReset ==
    /\ ~session_state.start_button_clicked
    /\ ~session_state.save_button_clicked
    /\ (\E i \in 1..Len(shown) : FromStartHandling(shown[i])) <=> event = "start_button"
    /\ (\E i \in 1..Len(shown) : FromSaveHandling(shown[i])) <=> event = "save_button"

C23_Witness ==
    /\ event = "save_button"
    /\ \E i \in 1..Len(shown) : FromSaveHandling(shown[i])
    /\ ~session_state.save_button_clicked
    /\ session_state.gemini_api_key # "" /\ session_state.search_phrase # ""

(* C24: in every state a session of the page reaches, results_df is the    *)
(* empty table of five columns, so the table editor and the save button    *)
(* are disabled (no edit and no click on save is possible), the save       *)
(* handling has never run, and no directory or file has been written.      *)
C24_TableAlwaysEmpty ==
    /\ session_state.results_df = DataFrame(<<>>)
    /\ DataFrameEmpty(session_state.results_df)
    /\ ~ENABLED EditTable
    /\ ~ENABLED ClickSave
    /\ event # "save_button"
    /\ \A i \in 1..Len(shown) : ~FromSaveHandling(shown[i])
    /\ ~data_dir
    /\ xlsx = NoFile

C24_Witness ==
    /\ StartedValid
    /\ \E i \in 1..Len(shown) : shown[i][1] = "success"
    /\ DataFrameEmpty(session_state.results_df)
    /\ ~ENABLED ClickSave

====
